---- MODULE Spec2Model ----
(***************************************************************************)
(* Monte Carlo simulations: the sine comparison script (rhombo and         *)
(* monte_carlo_integrate), the 2D integration script (calculate_vol), the  *)
(* half-sphere script, the dartboard script and the decay simulation       *)
(* (monte_carlo), as state machines.                                       *)
(*                                                                         *)
(* Numbers.  A float is a pair <<n, d>>: for d > 0 the rational n/d in     *)
(* lowest terms, and for d = 0 one of the non-finite floats, <<1, 0>> =    *)
(* +inf, <<-1, 0>> = -inf, <<0, 0>> = nan.  Arithmetic is exact (no        *)
(* rounding) except Sqrt, which is exact on squares of rationals and       *)
(* truncated to 1/SqrtScale elsewhere.  Python's own division raises       *)
(* ZeroDivisionError on a zero divisor; numpy's functions return nan or    *)
(* inf (with a RuntimeWarning) where Python's would raise.                 *)
(*                                                                         *)
(* The random source.  rm.random() is a choice from Variates, a finite     *)
(* subset of [0, 1); drawn counts the calls of rm.random().                *)
(***************************************************************************)
EXTENDS Integers, Sequences, FiniteSets, TLC

VARIABLES
    script, entry, pc, err, drawn, call_rands, nonfinite_seen, calls_log,
    fn, xi, xf, step, x_vals, dx, area, idx,
    rhombo_area, mc_area, rhombo_perc_errors, mc_perc_errors,
    yi, yf, base_area, quadrants, dA, vol, quadrant, x, y, z,
    N, volume, vol_list,
    R_mod, r, y_max, protruding_vol, non_protruding_vol,
    protruding_vol_list, non_protruding_vol_list, i,
    same_draws, neg_radicand_seen,
    circle_count, pi_list, dart, circle_prob, pi, hit_log,
    N_list, atom, atoms, step_draws, step_decays

commonVars == <<script, entry, pc, err, drawn, call_rands, nonfinite_seen, calls_log>>
sineVars == <<fn, step, x_vals, dx, area, idx,
              rhombo_area, mc_area, rhombo_perc_errors, mc_perc_errors>>
volVars == <<yi, yf, base_area, N, volume, vol_list>>
quadVars == <<quadrants, dA, vol, quadrant, x, y, z>>
sphereVars == <<R_mod, r, y_max, protruding_vol, non_protruding_vol,
                protruding_vol_list, non_protruding_vol_list, i,
                same_draws, neg_radicand_seen>>
dartVars == <<circle_count, pi_list, dart, circle_prob, pi, hit_log>>
decayVars == <<N_list, atom, atoms, step_draws, step_decays>>
vars == <<commonVars, xi, xf, sineVars, volVars, quadVars, sphereVars,
          dartVars, decayVars>>

----------------------------------------------------------------------------
(* Bounds of the model *)

\* the number N of step counts of a convergence run (1000 in the scripts)
NSteps == 3
\* the largest sample/subdivision count of a direct call of an estimator
MaxXSteps == 3
\* the largest number of quadrants of the half-sphere's base (1000 in the script)
MaxQuadrants == 2
\* the number of trials of the half-sphere script (100 in the script)
NIterations == 2
\* Sqrt of a non-square is truncated to a multiple of 1/SqrtScale
SqrtScale == 16
\* the dartboard script's N_darts (10000 in the script)
N_darts == 6
\* the decay simulation's initial number of nuclei (10000 in the script)
Ni == 4
\* the decay simulation's final time (1000 in the script)
tf == 4

----------------------------------------------------------------------------
(* Floats *)

AbsInt(n) == IF n < 0 THEN -n ELSE n

RECURSIVE GCD(_, _)
GCD(a, b) == IF b = 0 THEN a ELSE GCD(b, a % b)

\* n/d (d # 0) in lowest terms with a positive denominator
Norm(n, d) ==
    LET s == IF d < 0 THEN -1 ELSE 1
        g == GCD(AbsInt(n), AbsInt(d))
    IN  <<(s * n) \div g, (s * d) \div g>>

Num(k) == <<k, 1>>
Zero == <<0, 1>>
NaN == <<0, 0>>
PInf == <<1, 0>>
NInf == <<-1, 0>>

IsFinite(v) == v[2] # 0
IsNaN(v) == v = NaN
Sgn(v) == IF v[1] > 0 THEN 1 ELSE IF v[1] < 0 THEN -1 ELSE 0

Neg(v) == <<-v[1], v[2]>>

\* abs
AbsVal(v) == <<AbsInt(v[1]), v[2]>>

Add(a, b) ==
    IF IsFinite(a) /\ IsFinite(b)
    THEN LET g == GCD(a[2], b[2])
         IN  Norm(a[1] * (b[2] \div g) + b[1] * (a[2] \div g), (a[2] \div g) * b[2])
    ELSE IF IsNaN(a) \/ IsNaN(b) THEN NaN
    ELSE IF ~IsFinite(a) /\ ~IsFinite(b) THEN (IF a = b THEN a ELSE NaN)
    ELSE IF IsFinite(a) THEN b ELSE a

Sub(a, b) == Add(a, Neg(b))

Mul(a, b) ==
    IF IsFinite(a) /\ IsFinite(b)
    THEN LET g1 == GCD(AbsInt(a[1]), b[2])
             g2 == GCD(AbsInt(b[1]), a[2])
         IN  Norm((a[1] \div g1) * (b[1] \div g2), (a[2] \div g2) * (b[2] \div g1))
    ELSE IF IsNaN(a) \/ IsNaN(b) THEN NaN
    ELSE IF a[1] = 0 \/ b[1] = 0 THEN NaN
    ELSE <<Sgn(a) * Sgn(b), 0>>

\* 1/v as numpy computes it: 1/0 = inf, 1/inf = 0
Recip(v) ==
    IF IsNaN(v) THEN NaN
    ELSE IF ~IsFinite(v) THEN Zero
    ELSE IF v[1] = 0 THEN PInf
    ELSE Norm(v[2], v[1])

\* a/b for a divisor the caller has found not to be zero
Div(a, b) == Mul(a, Recip(b))

\* comparisons of finite floats
Le(a, b) == a[1] * b[2] <= b[1] * a[2]
Lt(a, b) == a[1] * b[2] < b[1] * a[2]

RECURSIVE ISqrtIn(_, _, _)
ISqrtIn(n, lo, hi) ==
    IF lo >= hi THEN lo
    ELSE LET mid == (lo + hi + 1) \div 2
         IN  IF mid * mid <= n THEN ISqrtIn(n, mid, hi) ELSE ISqrtIn(n, lo, mid - 1)

\* the largest k with k*k <= n
ISqrt(n) == ISqrtIn(n, 0, IF n < 46340 THEN n ELSE 46340)

\* np.sqrt: nan (and a RuntimeWarning, no exception) on a negative argument
Sqrt(v) ==
    IF IsNaN(v) THEN NaN
    ELSE IF ~IsFinite(v) THEN (IF v = PInf THEN PInf ELSE NaN)
    ELSE IF v[1] < 0 THEN NaN
    ELSE LET rn == ISqrt(v[1])
             rd == ISqrt(v[2])
         IN  IF rn * rn = v[1] /\ rd * rd = v[2]
             THEN <<rn, rd>>
             ELSE Norm(ISqrt((v[1] * SqrtScale * SqrtScale) \div v[2]), SqrtScale)

\* np.sin, by its Taylor polynomial x - x^3/6 (nan where x is not finite)
Sin(v) ==
    IF ~IsFinite(v) THEN NaN
    ELSE Sub(v, Div(Mul(v, Mul(v, v)), Num(6)))

\* the values rm.random() may return
Variates == {Zero, <<1, 2>>}

\* a finished call of an estimator: its count argument and the passes its loop made
Call(name, n, passes) == [name |-> name, n |-> n, passes |-> passes]

\* range(a, b)
PyRange(a, b) == [k \in 1..(IF b > a THEN b - a ELSE 0) |-> a + k - 1]

----------------------------------------------------------------------------
(* The sine comparison script: rhombo and monte_carlo_integrate *)

\* the functions an estimator is called with: a*x + b, and np.reciprocal
Lin(a, b) == [kind |-> "lin", a |-> Num(a), b |-> Num(b)]
Reciprocal == [kind |-> "reciprocal", a |-> Zero, b |-> Zero]
Fns == {Lin(0, 1), Lin(1, 0), Lin(2, 1), Reciprocal}

Apply(f, v) == IF f.kind = "lin" THEN Add(Mul(f.a, v), f.b) ELSE Recip(v)

\* the integration ranges <<xi, xf>> an estimator is called with
Domains == {<<Num(0), Num(0)>>, <<Num(0), Num(1)>>, <<Num(0), Num(2)>>, <<Num(1), Num(3)>>}

correct_val == 2

steps == PyRange(1, NSteps)

\* np.linspace(a, b, n): n points from a to b, both included
Linspace(a, b, n) ==
    [k \in 1..n |-> IF n = 1 THEN a
                    ELSE Add(a, Mul(Num(k - 1), Div(Sub(b, a), Num(n - 1))))]

\* Trapezoid with a guard that leaves a non-finite section out of the total
TrapezoidSkipNonFinite(f, v, d) ==
    LET t == Mul(Div(Add(Apply(f, Add(v, d)), Apply(f, v)), Num(2)), d)
    IN  IF IsFinite(t) THEN t ELSE Zero

\* (fn(x+dx) + fn(x))/2 * dx
Trapezoid(f, v, d) == Mul(Div(Add(Apply(f, Add(v, d)), Apply(f, v)), Num(2)), d)

\* rand_x = x_vals[0] + rand * (x_vals[-1] - dx - x_vals[0])
RandX(xs, d, rand) ==
    Add(xs[1], Mul(rand, Sub(Sub(xs[Len(xs)], d), xs[1])))

PercError(v, correct) == Mul(Div(Sub(v, Num(correct)), Num(correct)), Num(100))

NonFiniteAt(f, v, d) == ~IsFinite(Apply(f, v)) \/ ~IsFinite(Apply(f, Add(v, d)))

InitQuad ==
    /\ quadrants = 0 /\ dA = Zero /\ vol = Zero /\ quadrant = 0
    /\ x = Zero /\ y = Zero /\ z = Zero

InitSineIdle ==
    /\ fn = Lin(0, 0) /\ step = 0 /\ x_vals = <<>> /\ dx = Zero /\ area = Zero
    /\ idx = 0 /\ rhombo_area = Zero /\ mc_area = Zero
    /\ rhombo_perc_errors = <<>> /\ mc_perc_errors = <<>>

InitVolIdle ==
    /\ yi = Zero /\ yf = Zero /\ base_area = Zero /\ N = 0
    /\ volume = Zero /\ vol_list = <<>>

InitSphereIdle ==
    /\ R_mod = Zero /\ r = Zero /\ y_max = Zero
    /\ protruding_vol = Zero /\ non_protruding_vol = Zero
    /\ protruding_vol_list = <<>> /\ non_protruding_vol_list = <<>>
    /\ i = 0 /\ same_draws = TRUE /\ neg_radicand_seen = FALSE

InitDartIdle ==
    /\ circle_count = 0 /\ pi_list = <<>> /\ dart = 0
    /\ circle_prob = Zero /\ pi = Zero /\ hit_log = <<>>

InitDecayIdle ==
    /\ N_list = <<>> /\ atom = 0 /\ atoms = 0
    /\ step_draws = 0 /\ step_decays = 0

InitCommon ==
    /\ err = "none" /\ drawn = 0 /\ call_rands = <<>> /\ nonfinite_seen = FALSE
    /\ calls_log = <<>>

\* The script runs its loop over steps; rhombo and monte_carlo_integrate may
\* also be called on their own, with any count from 0 up.
InitSine ==
    /\ script = "sine"
    /\ entry \in {"script", "rhombo", "monte_carlo_integrate"}
    /\ InitCommon
    /\ fn \in Fns
    /\ \E d \in Domains : xi = d[1] /\ xf = d[2]
    /\ \/ entry = "script" /\ step = steps[1]
       \/ entry # "script" /\ step \in 0..MaxXSteps
    /\ pc = IF entry = "monte_carlo_integrate" THEN "mc_call" ELSE "rhombo_call"
    /\ x_vals = <<>> /\ dx = Zero /\ area = Zero /\ idx = 0
    /\ rhombo_area = Zero /\ mc_area = Zero
    /\ rhombo_perc_errors = <<>> /\ mc_perc_errors = <<>>
    /\ InitVolIdle /\ InitQuad /\ InitSphereIdle
    /\ InitDartIdle /\ InitDecayIdle

\* rhombo, lines 98-102; dx = (xf-xi)/x_steps raises on x_steps = 0
RhomboCall ==
    /\ script = "sine" /\ pc = "rhombo_call"
    /\ x_vals' = Linspace(xi, xf, step)
    /\ call_rands' = <<>>
    /\ nonfinite_seen' = FALSE
    /\ IF step = 0
       THEN /\ pc' = "error" /\ err' = "ZeroDivisionError"
            /\ UNCHANGED <<dx, area, idx>>
       ELSE /\ dx' = Div(Sub(xf, xi), Num(step))
            /\ area' = Zero
            /\ idx' = 1
            /\ pc' = "rhombo"
            /\ err' = err
    /\ UNCHANGED <<script, entry, drawn, calls_log, fn, xi, xf, step, rhombo_area, mc_area,
                   rhombo_perc_errors, mc_perc_errors, volVars, quadVars,
                   sphereVars, dartVars, decayVars>>

\* rhombo, lines 104-107: one pass of the loop over x_vals
RhomboIter ==
    /\ script = "sine" /\ pc = "rhombo" /\ idx <= Len(x_vals)
    /\ area' = Add(area, Trapezoid(fn, x_vals[idx], dx))
    /\ nonfinite_seen' = (nonfinite_seen \/ NonFiniteAt(fn, x_vals[idx], dx))
    /\ idx' = idx + 1
    /\ UNCHANGED <<script, entry, pc, err, drawn, call_rands, calls_log, fn, xi, xf, step,
                   x_vals, dx, rhombo_area, mc_area, rhombo_perc_errors,
                   mc_perc_errors, volVars, quadVars,
                   sphereVars, dartVars, decayVars>>

\* rhombo returns (line 109); the script records the error (lines 155-159)
RhomboReturn ==
    /\ script = "sine" /\ pc = "rhombo" /\ idx > Len(x_vals)
    /\ rhombo_area' = area
    /\ calls_log' = Append(calls_log, Call("rhombo", step, idx - 1))
    /\ IF entry = "script"
       THEN /\ rhombo_perc_errors' =
                   Append(rhombo_perc_errors, PercError(area, correct_val))
            /\ pc' = "mc_call"
       ELSE /\ pc' = "returned"
            /\ UNCHANGED rhombo_perc_errors
    /\ UNCHANGED <<script, entry, err, drawn, call_rands, nonfinite_seen, fn, xi, xf,
                   step, x_vals, dx, area, idx, mc_area, mc_perc_errors,
                   volVars, quadVars,
                   sphereVars, dartVars, decayVars>>

\* McCall with the total carried over from the call before instead of reset
McCallKeepsArea ==
    /\ script = "sine" /\ pc = "mc_call"
    /\ x_vals' = Linspace(xi, xf, step)
    /\ call_rands' = <<>>
    /\ nonfinite_seen' = FALSE
    /\ IF step = 0
       THEN /\ pc' = "error" /\ err' = "ZeroDivisionError"
            /\ UNCHANGED <<dx, area, idx>>
       ELSE /\ dx' = Div(Sub(xf, xi), Num(step))
            /\ area' = area
            /\ idx' = 1
            /\ pc' = "mc"
            /\ err' = err
    /\ UNCHANGED <<script, entry, drawn, calls_log, fn, xi, xf, step, rhombo_area, mc_area,
                   rhombo_perc_errors, mc_perc_errors, volVars, quadVars,
                   sphereVars, dartVars, decayVars>>

\* monte_carlo_integrate, lines 134-138
McCall ==
    /\ script = "sine" /\ pc = "mc_call"
    /\ x_vals' = Linspace(xi, xf, step)
    /\ call_rands' = <<>>
    /\ nonfinite_seen' = FALSE
    /\ IF step = 0
       THEN /\ pc' = "error" /\ err' = "ZeroDivisionError"
            /\ UNCHANGED <<dx, area, idx>>
       ELSE /\ dx' = Div(Sub(xf, xi), Num(step))
            /\ area' = Zero
            /\ idx' = 1
            /\ pc' = "mc"
            /\ err' = err
    /\ UNCHANGED <<script, entry, drawn, calls_log, fn, xi, xf, step, rhombo_area, mc_area,
                   rhombo_perc_errors, mc_perc_errors, volVars, quadVars,
                   sphereVars, dartVars, decayVars>>

\* monte_carlo_integrate, lines 140-147: one pass of the loop over x_vals
McIter ==
    /\ script = "sine" /\ pc = "mc" /\ idx <= Len(x_vals)
    /\ \E rand \in Variates :
          LET rand_x == RandX(x_vals, dx, rand)
          IN  /\ area' = Add(area, Trapezoid(fn, rand_x, dx))
              /\ nonfinite_seen' = (nonfinite_seen \/ NonFiniteAt(fn, rand_x, dx))
              /\ call_rands' = Append(call_rands, rand)
    /\ drawn' = drawn + 1
    /\ idx' = idx + 1
    /\ UNCHANGED <<script, entry, pc, err, calls_log, fn, xi, xf, step, x_vals, dx,
                   rhombo_area, mc_area, rhombo_perc_errors, mc_perc_errors,
                   volVars, quadVars,
                   sphereVars, dartVars, decayVars>>

\* monte_carlo_integrate returns (line 149); the script records the error
\* (lines 162-166) and goes on to the next step
McReturn ==
    /\ script = "sine" /\ pc = "mc" /\ idx > Len(x_vals)
    /\ mc_area' = area
    /\ calls_log' = Append(calls_log, Call("monte_carlo_integrate", step, idx - 1))
    /\ IF entry = "script"
       THEN /\ mc_perc_errors' = Append(mc_perc_errors, PercError(area, correct_val))
            /\ IF step < steps[Len(steps)]
               THEN step' = step + 1 /\ pc' = "rhombo_call"
               ELSE step' = step /\ pc' = "done"
       ELSE /\ pc' = "returned"
            /\ UNCHANGED <<mc_perc_errors, step>>
    /\ UNCHANGED <<script, entry, err, drawn, call_rands, nonfinite_seen, fn, xi, xf,
                   x_vals, dx, area, idx, rhombo_area, rhombo_perc_errors,
                   volVars, quadVars,
                   sphereVars, dartVars, decayVars>>

----------------------------------------------------------------------------
(* The 2D integration script: calculate_vol *)

N_steps == PyRange(1, NSteps + 1)

\* (range_max - range_min) * rm.random() - range_min
calculate_random_coordinate(range_min, range_max, rand) ==
    Sub(Mul(Sub(range_max, range_min), rand), range_min)

\* the dartboard script's helper: (range_max - range_min) * rm.random() - abs(range_min)
get_random_coordinate(range_min, range_max, rand) ==
    Sub(Mul(Sub(range_max, range_min), rand), AbsVal(range_min))

\* QuadrantVolume without the quadrant's base area
QuadrantVolumeHeightOnly(a, h) == h

\* dA * z
QuadrantVolume(a, h) == Mul(a, h)

\* np.sin(x) * np.sin(y)
calculate_height(px, py) == Mul(Sin(px), Sin(py))

\* The script runs its loop over N_steps with base_area = (xf-xi)*(yf-yi);
\* calculate_vol may also be called on its own, with any base area and count.
InitVol ==
    /\ script = "vol2d"
    /\ entry \in {"script", "calculate_vol"}
    /\ InitCommon
    /\ \E d \in Domains : xi = d[1] /\ xf = d[2]
    /\ \E d \in Domains : yi = d[1] /\ yf = d[2]
    /\ \/ /\ entry = "script"
          /\ base_area = Mul(Sub(xf, xi), Sub(yf, yi))
          /\ N = N_steps[1]
       \/ /\ entry # "script"
          /\ base_area \in {Zero, Mul(Sub(xf, xi), Sub(yf, yi))}
          /\ N \in 0..MaxXSteps
    /\ pc = "vol_call"
    /\ volume = Zero /\ vol_list = <<>>
    /\ InitSineIdle /\ InitQuad /\ InitSphereIdle
    /\ InitDartIdle /\ InitDecayIdle

\* VolCall with a division that returns inf instead of raising
VolCallNoRaise ==
    /\ script = "vol2d" /\ pc = "vol_call"
    /\ quadrants' = N
    /\ vol' = Zero
    /\ call_rands' = <<>>
    /\ nonfinite_seen' = FALSE
    /\ dA' = Div(base_area, Num(N))
    /\ quadrant' = 0
    /\ pc' = "vol"
    /\ err' = err
    /\ UNCHANGED <<script, entry, drawn, calls_log, xi, xf, sineVars, volVars, x, y, z,
                   sphereVars, dartVars, decayVars>>

\* calculate_vol, lines 118-120; dA = base_area/quadrants raises on quadrants = 0
VolCall ==
    /\ script = "vol2d" /\ pc = "vol_call"
    /\ quadrants' = N
    /\ vol' = Zero
    /\ call_rands' = <<>>
    /\ nonfinite_seen' = FALSE
    /\ IF N = 0
       THEN /\ pc' = "error" /\ err' = "ZeroDivisionError"
            /\ UNCHANGED <<dA, quadrant>>
       ELSE /\ dA' = Div(base_area, Num(N))
            /\ quadrant' = 0
            /\ pc' = "vol"
            /\ err' = err
    /\ UNCHANGED <<script, entry, drawn, calls_log, xi, xf, sineVars, volVars, x, y, z,
                   sphereVars, dartVars, decayVars>>

\* calculate_vol, lines 122-130: one pass of the loop over range(quadrants)
VolIter ==
    /\ script = "vol2d" /\ pc = "vol" /\ quadrant < quadrants
    /\ \E u1, u2 \in Variates :
          LET px == calculate_random_coordinate(xi, xf, u1)
              py == calculate_random_coordinate(yi, yf, u2)
              pz == calculate_height(px, py)
          IN  /\ x' = px /\ y' = py /\ z' = pz
              /\ vol' = Add(vol, QuadrantVolume(dA, pz))
              /\ nonfinite_seen' = (nonfinite_seen \/ ~IsFinite(pz))
              /\ call_rands' = call_rands \o <<u1, u2>>
    /\ drawn' = drawn + 2
    /\ quadrant' = quadrant + 1
    /\ UNCHANGED <<script, entry, pc, err, calls_log, xi, xf, sineVars, volVars,
                   quadrants, dA, sphereVars, dartVars, decayVars>>

\* calculate_vol returns (line 132); the script appends the volume (lines
\* 137-139) and goes on to the next N
VolReturn ==
    /\ script = "vol2d" /\ pc = "vol" /\ quadrant >= quadrants
    /\ volume' = vol
    /\ calls_log' = Append(calls_log, Call("calculate_vol", quadrants, quadrant))
    /\ IF entry = "script"
       THEN /\ vol_list' = Append(vol_list, vol)
            /\ IF N < N_steps[Len(N_steps)]
               THEN N' = N + 1 /\ pc' = "vol_call"
               ELSE N' = N /\ pc' = "done"
       ELSE /\ pc' = "returned"
            /\ UNCHANGED <<vol_list, N>>
    /\ UNCHANGED <<script, entry, err, drawn, call_rands, nonfinite_seen, xi, xf,
                   sineVars, yi, yf, base_area, quadVars,
                   sphereVars, dartVars, decayVars>>

----------------------------------------------------------------------------
(* The two integration scripts *)

Init == InitSine \/ InitVol

Next ==
    \/ RhomboCall \/ RhomboIter \/ RhomboReturn
    \/ McCall \/ McIter \/ McReturn
    \/ VolCall \/ VolIter \/ VolReturn

Spec == Init /\ [][Next]_vars
----------------------------------------------------------------------------
(* The half-sphere script *)

\* the values rm.random() may return in the half-sphere script
SphereVariates == {Zero, <<4, 5>>}

R == <<1, 1>>
\* np.pi, by 22/7
Pi == <<22, 7>>

Sq(v) == Mul(v, v)

\* 2 * radius * rm.random() - radius
ScaleToRadius(radius, rand) == Sub(Mul(Mul(Num(2), radius), rand), radius)

\* np.sqrt(R**2 - x**2 - y**2)
Radicand(px, py) == Sub(Sub(Sq(R), Sq(px)), Sq(py))

\* Height that takes the square root of a negative radicand as 0
HeightClamped(px, py) ==
    IF Lt(Radicand(px, py), Zero) THEN Zero ELSE Sqrt(Radicand(px, py))

Height(px, py) == Sqrt(Radicand(px, py))

\* method 1, lines 107-113: x, y_max, y drawn within R
ProtrudingSample(u1, u2) ==
    LET px == ScaleToRadius(R, u1)
        pm == Sqrt(Sub(Sq(R), Sq(px)))
        py == ScaleToRadius(pm, u2)
    IN  [x |-> px, y_max |-> pm, y |-> py, z |-> Height(px, py)]

\* NonProtrudingSample with x drawn within R instead of R_mod
NonProtrudingSampleFullX(rmod, u1, u2) ==
    LET px == ScaleToRadius(R, u1)
        pm == Sqrt(Sub(Sq(rmod), Sq(px)))
        py == ScaleToRadius(pm, u2)
    IN  [x |-> px, y_max |-> pm, y |-> py, z |-> Height(px, py)]

\* NonProtrudingSample with y = 2 * y_max * rm.random(), not shifted by y_max
NonProtrudingSampleUnshiftedY(rmod, u1, u2) ==
    LET px == ScaleToRadius(rmod, u1)
        pm == Sqrt(Sub(Sq(rmod), Sq(px)))
        py == Mul(Mul(Num(2), pm), u2)
    IN  [x |-> px, y_max |-> pm, y |-> py, z |-> Height(px, py)]

\* method 2, lines 119-125: x, y_max, y drawn within R_mod, z within R
NonProtrudingSample(rmod, u1, u2) ==
    LET px == ScaleToRadius(rmod, u1)
        pm == Sqrt(Sub(Sq(rmod), Sq(px)))
        py == ScaleToRadius(pm, u2)
    IN  [x |-> px, y_max |-> pm, y |-> py, z |-> Height(px, py)]

\* lines 73-95.  quadrants is 1000 in the script; R_mod is R - r in the script,
\* and R or R + r where line 87 is configured otherwise.
InitSphere ==
    /\ script = "sphere" /\ entry = "script" /\ pc = "trial_start"
    /\ InitCommon
    /\ quadrants \in 1..MaxQuadrants
    /\ base_area = Mul(Pi, Sq(R))
    /\ dA = Div(base_area, Num(quadrants))
    /\ r = Sqrt(Div(dA, Pi))
    /\ R_mod \in {Sub(R, r), R, Add(R, r)}
    /\ i = 0
    /\ protruding_vol = Zero /\ non_protruding_vol = Zero
    /\ protruding_vol_list = <<>> /\ non_protruding_vol_list = <<>>
    /\ y_max = Zero /\ same_draws = TRUE /\ neg_radicand_seen = FALSE
    /\ xi = Zero /\ xf = Zero
    /\ yi = Zero /\ yf = Zero /\ N = 0 /\ volume = Zero /\ vol_list = <<>>
    /\ vol = Zero /\ quadrant = 0 /\ x = Zero /\ y = Zero /\ z = Zero
    /\ InitSineIdle
    /\ InitDartIdle /\ InitDecayIdle

\* lines 98-102: a trial begins with both volumes at 0
TrialStart ==
    /\ script = "sphere" /\ pc = "trial_start" /\ i < NIterations
    /\ protruding_vol' = Zero
    /\ non_protruding_vol' = Zero
    /\ quadrant' = 0
    /\ same_draws' = TRUE
    /\ neg_radicand_seen' = FALSE
    /\ pc' = "quadrants"
    /\ UNCHANGED <<script, entry, err, drawn, call_rands, nonfinite_seen, calls_log,
                   dartVars, decayVars,
                   xi, xf, sineVars, volVars, quadrants, dA, vol, x, y, z,
                   R_mod, r, y_max, protruding_vol_list, non_protruding_vol_list, i>>

\* lines 104-127: one pass of the loop over range(quadrants), both methods
SphereQuadrant ==
    /\ script = "sphere" /\ pc = "quadrants" /\ quadrant < quadrants
    /\ \E u1, u2, u3, u4 \in SphereVariates :
          \E m1 \in {ProtrudingSample(u1, u2)}, m2 \in {NonProtrudingSample(R_mod, u3, u4)} :
              /\ protruding_vol' = Add(protruding_vol, Mul(dA, m1.z))
              /\ non_protruding_vol' = Add(non_protruding_vol, Mul(dA, m2.z))
              /\ x' = m2.x /\ y_max' = m2.y_max /\ y' = m2.y /\ z' = m2.z
              /\ same_draws' = (same_draws /\ u3 = u1 /\ u4 = u2)
              /\ neg_radicand_seen' =
                    (neg_radicand_seen \/ Lt(Radicand(m2.x, m2.y), Zero))
    /\ drawn' = drawn + 4
    /\ quadrant' = quadrant + 1
    /\ UNCHANGED <<script, entry, pc, err, call_rands, nonfinite_seen, calls_log,
                   dartVars, decayVars,
                   xi, xf, sineVars, volVars, quadrants, dA, vol,
                   R_mod, r, protruding_vol_list, non_protruding_vol_list, i>>

\* lines 129-132: the trial's two volumes are appended
TrialEnd ==
    /\ script = "sphere" /\ pc = "quadrants" /\ quadrant >= quadrants
    /\ protruding_vol_list' = Append(protruding_vol_list, protruding_vol)
    /\ non_protruding_vol_list' = Append(non_protruding_vol_list, non_protruding_vol)
    /\ i' = i + 1
    /\ pc' = IF i + 1 < NIterations THEN "trial_start" ELSE "done"
    /\ UNCHANGED <<script, entry, err, drawn, call_rands, nonfinite_seen, calls_log,
                   dartVars, decayVars,
                   xi, xf, sineVars, volVars, quadVars,
                   R_mod, r, y_max, protruding_vol, non_protruding_vol,
                   same_draws, neg_radicand_seen>>

SpecSphere == InitSphere /\ [][TrialStart \/ SphereQuadrant \/ TrialEnd]_vars

----------------------------------------------------------------------------
(* Claims *)

Half == <<1, 2>>

\* the exact integral of a*x + b over [0, L]: a*L^2/2 + b*L
LinearIntegral(f, L) == Add(Mul(Mul(f.a, Mul(L, L)), Half), Mul(f.b, L))

\* rhombo has returned its area for the count in step
RhomboReturned ==
    /\ script = "sine"
    /\ \/ entry = "script" /\ pc = "mc_call"
       \/ entry = "rhombo" /\ pc = "returned"

\* C1: for every N >= 1 and every linear function on [0, L], rhombo returns
\* the exact integral a*L^2/2 + b*L.
C1_RhomboExactOnLinear ==
    (RhomboReturned /\ fn.kind = "lin" /\ xi = Zero /\ step >= 1)
        => rhombo_area = LinearIntegral(fn, xf)

\* the finished calls of one estimator, in order
CallsOf(name) == SelectSeq(calls_log, LAMBDA c : c.name = name)

\* the k-th recorded entry comes from a call with exactly k samples
EntriesByCount(name, n) ==
    /\ Len(CallsOf(name)) = n
    /\ \A k \in 1..n : CallsOf(name)[k].n = k /\ CallsOf(name)[k].passes = k

\* C2: after a convergence run over the step counts 1..N the recorded
\* sequences have exactly N entries, the k-th made with exactly k samples.
C2_SequenceHasNEntries ==
    (entry = "script" /\ pc = "done") =>
        /\ script = "sine" =>
              /\ Len(rhombo_perc_errors) = NSteps
              /\ Len(mc_perc_errors) = NSteps
              /\ EntriesByCount("rhombo", NSteps)
              /\ EntriesByCount("monte_carlo_integrate", NSteps)
        /\ script = "vol2d" =>
              /\ Len(vol_list) = NSteps
              /\ EntriesByCount("calculate_vol", NSteps)

Tri(n) == (n * (n + 1)) \div 2

\* the total monte_carlo_integrate builds from the variates rs alone
RECURSIVE McTotal(_, _, _, _)
McTotal(f, xs, d, rs) ==
    IF rs = <<>> THEN Zero
    ELSE Add(McTotal(f, xs, d, SubSeq(rs, 1, Len(rs) - 1)),
             Mul(Div(Add(Apply(f, Add(RandX(xs, d, rs[Len(rs)]), d)),
                         Apply(f, RandX(xs, d, rs[Len(rs)]))), Num(2)), d))

\* the total calculate_vol builds from the variates rs alone
RECURSIVE VolTotal(_, _)
VolTotal(a, rs) ==
    IF rs = <<>> THEN Zero
    ELSE Add(VolTotal(a, SubSeq(rs, 1, Len(rs) - 2)),
             Mul(a, Mul(Sin(Sub(Mul(Sub(xf, xi), rs[Len(rs) - 1]), xi)),
                        Sin(Sub(Mul(Sub(yf, yi), rs[Len(rs)]), yi)))))

\* C3: in a convergence run every entry is computed from scratch: its total
\* is built from 0 out of the variates of its own call only, and entries
\* 1..n consume d*n*(n+1)/2 variates (d = 1 monte_carlo_integrate, d = 2
\* calculate_vol).
C3_EntryFromScratch ==
    entry = "script" =>
        /\ (script = "sine" /\ pc = "mc") =>
              /\ Len(call_rands) = idx - 1
              /\ area = McTotal(fn, x_vals, dx, call_rands)
              /\ drawn = Tri(step - 1) + Len(call_rands)
        /\ (script = "vol2d" /\ pc = "vol") =>
              /\ Len(call_rands) = 2 * quadrant
              /\ vol = VolTotal(dA, call_rands)
              /\ drawn = 2 * Tri(N - 1) + Len(call_rands)
        /\ (script = "sine" /\ pc = "done") =>
              drawn = Tri(Len(mc_perc_errors))
        /\ (script = "vol2d" /\ pc = "done") =>
              drawn = 2 * Tri(Len(vol_list))

C3_Witness ==
    /\ entry = "script" /\ script = "vol2d" /\ pc = "done"
    /\ Len(vol_list) = NSteps
    /\ drawn = NSteps * (NSteps + 1)
    /\ vol_list[NSteps] # Zero

\* C4: the coordinate helper returns min + u*(max - min), a value inside
\* [min, max] (here for the x and y that calculate_vol draws).
C4_CoordinateInRange ==
    (script = "vol2d" /\ pc = "vol" /\ quadrant > 0) =>
        /\ x = Add(xi, Mul(call_rands[Len(call_rands) - 1], Sub(xf, xi)))
        /\ y = Add(yi, Mul(call_rands[Len(call_rands)], Sub(yf, yi)))
        /\ Le(xi, x) /\ Le(x, xf)
        /\ Le(yi, y) /\ Le(y, yf)

\* the count the estimator was (or is about to be) called with
Count == IF script = "sine" THEN step ELSE N

\* an estimator has been entered (its first lines have run)
Entered == pc \notin {"rhombo_call", "mc_call", "vol_call"}

\* C5 as stated: a call with a count of 0 is rejected with InvalidArgument,
\* before any sample is drawn and without a numeric result.
C5_ZeroCountInvalidArgument ==
    (Count = 0 /\ Entered) =>
        /\ pc = "error" /\ err = "InvalidArgument"
        /\ drawn = 0 /\ calls_log = <<>>

\* C5 amended: a call with a count of 0 fails with ZeroDivisionError, raised
\* by the division by the count, before any sample is drawn and without a
\* numeric result.
C5_ZeroCountZeroDivision ==
    (Count = 0 /\ Entered) =>
        /\ pc = "error" /\ err = "ZeroDivisionError"
        /\ drawn = 0 /\ calls_log = <<>>

C5_Witness ==
    /\ script = "sine" /\ entry = "monte_carlo_integrate"
    /\ step = 0 /\ pc = "error" /\ err = "ZeroDivisionError"

\* the domain of the estimator in progress has zero measure
ZeroMeasure == IF script = "sine" THEN xi = xf ELSE base_area = Zero

\* the loop of a Monte Carlo estimator has ended and its total is returned next
McLoopEnded ==
    \/ script = "sine" /\ pc = "mc" /\ idx > Len(x_vals)
    \/ script = "vol2d" /\ pc = "vol" /\ quadrant >= quadrants

Total == IF script = "sine" THEN area ELSE vol

\* C6 as stated: on a domain of zero measure the estimator, called with any
\* N >= 1, returns 0 and draws no variate (here where every function value
\* met was finite).
C6_ZeroMeasureNoDraw ==
    (ZeroMeasure /\ Count >= 1 /\ McLoopEnded /\ ~nonfinite_seen) =>
        Total = Zero /\ call_rands = <<>>

\* C6 amended: on a domain of zero measure the estimator, called with any
\* N >= 1, still draws its d*N variates, and returns 0 unless a function
\* value at a sampled point was not finite.
C6_ZeroMeasureDrawsAll ==
    (ZeroMeasure /\ Count >= 1 /\ McLoopEnded) =>
        /\ Len(call_rands) = (IF script = "sine" THEN 1 ELSE 2) * Count
        /\ ~nonfinite_seen => Total = Zero

C6_Witness ==
    /\ script = "vol2d" /\ base_area = Zero /\ xi # xf /\ yi # yf
    /\ pc = "vol" /\ quadrants = MaxXSteps /\ quadrant = quadrants
    /\ vol = Zero /\ Len(call_rands) = 2 * quadrants /\ z # Zero

\* the value the last finished call returned
Returned ==
    IF script = "vol2d" THEN volume
    ELSE IF calls_log[Len(calls_log)].name = "rhombo" THEN rhombo_area ELSE mc_area

\* C8 as stated: a non-finite function value at a sampled point stops the
\* estimator with NumericError and is never added into the running total.
C8_NonFiniteRaises ==
    pc \in {"mc", "vol"} =>
        /\ IsFinite(Total)
        /\ nonfinite_seen => err = "NumericError"

\* C8 amended: a non-finite function value at a sampled point is added into
\* the running total, which is non-finite from then on; no error is raised
\* and the estimator returns the non-finite total.
C8_NonFinitePropagates ==
    nonfinite_seen =>
        /\ err = "none"
        /\ pc \in {"rhombo", "mc", "vol"} => ~IsFinite(Total)
        /\ pc \notin {"rhombo", "mc", "vol"} => ~IsFinite(Returned)

C8_Witness ==
    /\ script = "sine" /\ entry = "monte_carlo_integrate" /\ pc = "returned"
    /\ nonfinite_seen /\ ~IsFinite(mc_area) /\ step > 1

\* the last volume method 2 appended
LastNonProtruding == non_protruding_vol_list[Len(non_protruding_vol_list)]
LastProtruding == protruding_vol_list[Len(protruding_vol_list)]

\* a trial has ended and its volumes are the last entries of the lists
TrialRecorded == pc \in {"trial_start", "done"} /\ i > 0

\* C7 as stated: with R_mod > R, as soon as a sampled (x, y) makes the
\* radicand R^2 - x^2 - y^2 negative the computation fails with a
\* DomainError instead of going on accumulating a volume.
C7_NegativeRadicandDomainError ==
    (script = "sphere" /\ Lt(R, R_mod) /\ neg_radicand_seen) =>
        pc = "error" /\ err = "DomainError"

\* C7 amended: a negative radicand (which only R_mod > R produces) raises
\* nothing: np.sqrt returns nan, the nan is added into non_protruding_vol,
\* the loop goes on and the trial's recorded volume is nan.
C7_NegativeRadicandNaN ==
    (script = "sphere" /\ neg_radicand_seen) =>
        /\ Lt(R, R_mod)
        /\ err = "none" /\ pc # "error"
        /\ IsNaN(non_protruding_vol)
        /\ TrialRecorded => IsNaN(LastNonProtruding)

C7_Witness ==
    /\ script = "sphere" /\ Lt(R, R_mod) /\ neg_radicand_seen
    /\ pc = "done" /\ IsNaN(LastNonProtruding) /\ IsFinite(LastProtruding)

\* C9 as stated: with R_mod = R the method 2 estimate of every trial equals
\* the method 1 estimate of that trial.
C9_SameEstimateAtFullRadius ==
    (script = "sphere" /\ R_mod = R) =>
        \A k \in 1..Len(protruding_vol_list) :
            non_protruding_vol_list[k] = protruding_vol_list[k]

\* C9 amended: with R_mod = R method 2 applies method 1's formulas over the
\* same ranges to its own two variates per quadrant; the two estimates of a
\* trial are equal when those variates are pairwise the ones method 1 drew.
C9_EqualOnSameVariates ==
    (script = "sphere" /\ R_mod = R /\ same_draws) =>
        /\ non_protruding_vol = protruding_vol
        /\ TrialRecorded => LastNonProtruding = LastProtruding

C9_Witness ==
    /\ script = "sphere" /\ R_mod = R /\ same_draws /\ pc = "done"
    /\ LastNonProtruding = LastProtruding /\ LastProtruding # Zero

\* C10: with R_mod = R - r every base point method 2 samples has
\* x^2 + y^2 <= R_mod^2, so the disc of radius r around it stays inside the
\* base circle of radius R = R_mod + r; z is computed with the unmodified R
\* and its radicand R^2 - x^2 - y^2 is never negative.
C10_NoProtrusionInPlane ==
    (script = "sphere" /\ R_mod = Sub(R, r) /\ quadrant > 0) =>
        /\ Le(Zero, R_mod) /\ Add(R_mod, r) = R
        /\ Le(Add(Sq(x), Sq(y)), Sq(R_mod))
        /\ Le(Zero, Radicand(x, y))
        /\ z = Sqrt(Radicand(x, y))
        /\ ~neg_radicand_seen /\ IsFinite(non_protruding_vol)

C10_Witness ==
    /\ script = "sphere" /\ R_mod = Sub(R, r) /\ quadrant > 0
    /\ Lt(Zero, R_mod) /\ x # Zero /\ y # Zero
    /\ Lt(Add(Sq(x), Sq(y)), Sq(R_mod))
    /\ non_protruding_vol # Zero

\* C11: for every N >= 1 the N sub-intervals [x, x + dx] over which rhombo
\* accumulates trapezoids partition [xi, xf] into N equal pieces: the one of
\* pass k (k = 1..N) starts at xi + (k-1)*dx with dx = (xf - xi)/N, no two
\* overlap, and the function is never evaluated outside [xi, xf].
C11_RhomboPartition ==
    (script = "sine" /\ pc = "rhombo" /\ step >= 1) =>
        /\ Len(x_vals) = step
        /\ dx = Div(Sub(xf, xi), Num(step))
        /\ \A k \in 1..(idx - 1) :
              /\ x_vals[k] = Add(xi, Mul(Num(k - 1), dx))
              /\ k > 1 => Le(Add(x_vals[k - 1], dx), x_vals[k])
              /\ Le(xi, x_vals[k]) /\ Le(Add(x_vals[k], dx), xf)

\* the point monte_carlo_integrate drew in its latest pass (line 144)
LastRandX == RandX(x_vals, dx, call_rands[Len(call_rands)])

\* C12: for every step count x_steps >= 1 (x_steps = 1 included) and every
\* variate in [0, 1), both points at which monte_carlo_integrate evaluates
\* the function, rand_x and rand_x + dx, lie inside [xi, xf].
C12_McPointsInDomain ==
    (script = "sine" /\ pc = "mc" /\ step >= 1 /\ call_rands # <<>>) =>
        /\ Le(xi, LastRandX) /\ Le(LastRandX, xf)
        /\ Le(xi, Add(LastRandX, dx)) /\ Le(Add(LastRandX, dx), xf)

----------------------------------------------------------------------------
(* The dartboard script *)

\* lines 30-31
square_prob == 1
a == 1

\* range(1, N_darts, 1), the values of dart (line 60)
darts == PyRange(1, N_darts)

\* x**2 + y**2 <= a**2 (line 67)
InCircle(px, py) == Le(Add(Sq(px), Sq(py)), Sq(Num(a)))

\* lines 30-35, and the loop of line 60 about to make its first pass
InitDart ==
    /\ script = "dart" /\ entry = "script"
    /\ InitCommon
    /\ circle_count = 0 /\ pi_list = <<>>
    /\ circle_prob = Zero /\ pi = Zero /\ hit_log = <<>>
    /\ IF darts = <<>> THEN dart = 0 /\ pc = "done"
                       ELSE dart = darts[1] /\ pc = "throw"
    /\ xi = Zero /\ xf = Zero
    /\ InitSineIdle /\ InitVolIdle /\ InitQuad /\ InitSphereIdle
    /\ InitDecayIdle

\* lines 60-78: one pass of the loop, one dart
Throw ==
    /\ script = "dart" /\ pc = "throw"
    /\ \E u1, u2 \in Variates :
          \E px \in {get_random_coordinate(Neg(Num(a)), Num(a), u1)},
             py \in {get_random_coordinate(Neg(Num(a)), Num(a), u2)} :
             \E count \in {IF InCircle(px, py) THEN circle_count + 1
                                               ELSE circle_count} :
                /\ x' = px /\ y' = py
                /\ circle_count' = count
                /\ circle_prob' = Div(Div(Num(count), Num(dart)), Num(square_prob))
                /\ pi' = Mul(Num(4), Div(Div(Num(count), Num(dart)), Num(square_prob)))
                /\ pi_list' = Append(pi_list,
                       Mul(Num(4), Div(Div(Num(count), Num(dart)), Num(square_prob))))
                /\ hit_log' = Append(hit_log, InCircle(px, py))
    /\ drawn' = drawn + 2
    /\ IF dart < darts[Len(darts)]
       THEN dart' = dart + 1 /\ pc' = pc
       ELSE dart' = dart /\ pc' = "done"
    /\ UNCHANGED <<script, entry, err, call_rands, nonfinite_seen, calls_log,
                   xi, xf, sineVars, volVars, quadrants, dA, vol, quadrant, z,
                   sphereVars, decayVars>>

SpecDart == InitDart /\ [][Throw]_vars

\* the number of the first k darts that landed in the circle
Hits(k) == Cardinality({j \in 1..k : hit_log[j]})

\* C13: the dartboard script throws exactly N_darts darts and records one
\* pi estimate per dart: after the loop pi_list has N_darts entries, the
\* estimate recorded after the k-th throw is 4 * Hits(k) / k, and
\* 0 <= circle_count <= k and 0 <= pi <= 4 hold at every step.
C13_OneEstimatePerDart ==
    script = "dart" =>
        /\ pc = "done" => Len(pi_list) = N_darts /\ Len(hit_log) = N_darts
        /\ \A k \in 1..Len(pi_list) :
              /\ pi_list[k] = Div(Num(4 * Hits(k)), Num(k))
              /\ Le(Zero, pi_list[k]) /\ Le(pi_list[k], Num(4))
        /\ circle_count = Hits(Len(hit_log))
        /\ 0 <= circle_count /\ circle_count <= Len(pi_list)

----------------------------------------------------------------------------
(* The decay simulation: monte_carlo *)

\* lines 45, 48
lmbda == <<1, 100>>
ti == 0

\* np.arange(ti, tf, 1) (line 50)
t == PyRange(ti, tf)

\* the values rm.random() may return: below lmbda, equal to it, above it
DecayVariates == {Zero, lmbda, <<1, 2>>}

\* the bound of the loop of line 105 with the count read from the atom
\* counter at every pass
AtomRangeReread(captured, current) == current

\* range(N) of line 105 is built once, from N as it is when the loop starts
AtomRange(captured, current) == captured

\* lines 45-52, and monte_carlo called with them (line 119)
InitDecay ==
    /\ script = "decay" /\ entry = "script"
    /\ InitCommon
    /\ N_list = <<Ni>>
    /\ i = 0 /\ N = 0 /\ atom = 0 /\ atoms = 0
    /\ step_draws = 0 /\ step_decays = 0
    /\ pc = IF t[Len(t)] > 0 THEN "step_start" ELSE "done"
    /\ xi = Zero /\ xf = Zero
    /\ yi = Zero /\ yf = Zero /\ base_area = Zero
    /\ volume = Zero /\ vol_list = <<>>
    /\ R_mod = Zero /\ r = Zero /\ y_max = Zero
    /\ protruding_vol = Zero /\ non_protruding_vol = Zero
    /\ protruding_vol_list = <<>> /\ non_protruding_vol_list = <<>>
    /\ same_draws = TRUE /\ neg_radicand_seen = FALSE
    /\ InitSineIdle /\ InitQuad /\ InitDartIdle

\* lines 101-105: a time step begins with N = N_list[-1] and range(N)
StepStart ==
    /\ script = "decay" /\ pc = "step_start" /\ i < t[Len(t)]
    /\ N' = N_list[Len(N_list)]
    /\ atoms' = N_list[Len(N_list)]
    /\ atom' = 0
    /\ step_draws' = 0 /\ step_decays' = 0
    /\ pc' = "atoms"
    /\ UNCHANGED <<script, entry, err, drawn, call_rands, nonfinite_seen, calls_log,
                   xi, xf, sineVars, yi, yf, base_area, volume, vol_list, quadVars,
                   R_mod, r, y_max, protruding_vol, non_protruding_vol,
                   protruding_vol_list, non_protruding_vol_list, i,
                   same_draws, neg_radicand_seen, dartVars, N_list>>

\* lines 105-111: one pass of the loop over range(N), one nucleus
DecayAtom ==
    /\ script = "decay" /\ pc = "atoms" /\ atom < AtomRange(atoms, N)
    /\ \E rand \in DecayVariates :
          /\ N' = IF Lt(rand, lmbda) THEN N - 1 ELSE N
          /\ step_decays' = IF Lt(rand, lmbda) THEN step_decays + 1 ELSE step_decays
    /\ atom' = atom + 1
    /\ step_draws' = step_draws + 1
    /\ drawn' = drawn + 1
    /\ UNCHANGED <<script, entry, pc, err, call_rands, nonfinite_seen, calls_log,
                   xi, xf, sineVars, yi, yf, base_area, volume, vol_list, quadVars,
                   R_mod, r, y_max, protruding_vol, non_protruding_vol,
                   protruding_vol_list, non_protruding_vol_list, i,
                   same_draws, neg_radicand_seen, dartVars, N_list, atoms>>

\* line 113, and line 115 after the last time step
StepEnd ==
    /\ script = "decay" /\ pc = "atoms" /\ atom >= AtomRange(atoms, N)
    /\ N_list' = Append(N_list, N)
    /\ i' = i + 1
    /\ pc' = IF i + 1 < t[Len(t)] THEN "step_start" ELSE "done"
    /\ UNCHANGED <<script, entry, err, drawn, call_rands, nonfinite_seen, calls_log,
                   xi, xf, sineVars, volVars, quadVars,
                   R_mod, r, y_max, protruding_vol, non_protruding_vol,
                   protruding_vol_list, non_protruding_vol_list,
                   same_draws, neg_radicand_seen, dartVars,
                   atom, atoms, step_draws, step_decays>>

SpecDecay == InitDecay /\ [][StepStart \/ DecayAtom \/ StepEnd]_vars

\* the count before the latest finished time step, and the count it appended
OldCount == N_list[Len(N_list) - 1]
NewCount == N_list[Len(N_list)]

\* C14: each time step of monte_carlo tests every nucleus that was undecayed
\* at its start exactly once (the variates drawn in the step number the last
\* value of N_list, whatever decays during the step) and appends the old
\* count minus the number of draws below lmbda; N_list is non-increasing,
\* never negative, and has one entry more per time step.
C14_StepTestsEveryNucleusOnce ==
    script = "decay" =>
        /\ Len(N_list) = i + 1
        /\ \A k \in 1..Len(N_list) : N_list[k] >= 0
        /\ \A k \in 2..Len(N_list) : N_list[k] <= N_list[k - 1]
        /\ pc = "atoms" =>
              /\ atoms = NewCount
              /\ step_draws = atom /\ atom <= NewCount
              /\ N = NewCount - step_decays
        /\ (pc # "atoms" /\ i > 0) =>
              /\ step_draws = OldCount
              /\ NewCount = OldCount - step_decays

C14_Witness ==
    /\ script = "decay" /\ pc = "done" /\ i = t[Len(t)]
    /\ step_draws = OldCount /\ step_decays > 0 /\ step_decays < step_draws
    /\ NewCount > 0 /\ OldCount < Ni
====
